---- MODULE Spec2Model ----
(***************************************************************************)
(* CashFlow: the category, expense and earning services of                 *)
(* src/CashFlow/models/{Category,Expense,Earning}.py over the three tables *)
(* they declare, and the session of src/CashFlow/database.py.              *)
(*                                                                         *)
(* Every service function is `with get_session() as sess:` around a try    *)
(* block.  The specifications take the two parts apart:                    *)
(*   Spec      the with blocks: each function's body, given its session,   *)
(*             run atomically against the tables, one call after the       *)
(*             other (single-threaded, one transaction per call);          *)
(*   SpecRows  the same bodies over more rows and fewer values;            *)
(*   SpecCall  the with statement: a call as its caller sees it, where     *)
(*             get_session() is evaluated and entered before the try       *)
(*             block is reached.                                           *)
(* The tables are those of SQLite under SQLAlchemy's defaults: unique and  *)
(* NOT NULL constraints are enforced at commit, foreign keys are not.      *)
(***************************************************************************)
EXTENDS Integers, Sequences, FiniteSets, TLC

\* ------------------------------------------------------------------ bounds
\* the largest id a table hands out, and the largest id a caller passes
MaxId == 2
\* expense and earning rows stored at a time, under Spec and under SpecRows
MaxRows == 1
MaxRowsWide == 2

\* ------------------------------------------------------------ value domains
\* Python's None, for the optional numeric arguments and fields.
None == -1
\* Python's None, for the optional description.
NoneStr == "None"

Names == {"Groceries", "Salary"}
\* category_type / new_type are plain `str`: any string is accepted.
Types == {"expense", "earning", "Expense"}
Descriptions == {"rent"}
\* transaction_date, as a day number
Dates == {1, 2}
Amounts == {0, 1}
Ids == 1..MaxId

Opt(S) == S \cup {None}
OptStr(S) == S \cup {NoneStr}

VARIABLES categories, expenses, earnings, last, frame

vars == <<categories, expenses, earnings, last, frame>>
tables == <<categories, expenses, earnings>>

\* ------------------------------------------------------------------ helpers
\* str.lower() on the strings of Types.
Lower(s) == CASE s = "Expense" -> "expense" [] OTHER -> s

Max(S) == CHOOSE m \in S : \A x \in S : x <= m

\* A table that numbers its rows from 0.
NextId_fromzero(table) ==
    IF table = {} THEN 0 ELSE Max({r.id : r \in table}) + 1

\* The id the database gives a new row: an integer primary key without
\* AUTOINCREMENT is the table's largest id plus one, 1 on an empty table.
NextId(table) == IF table = {} THEN 1 ELSE Max({r.id : r \in table}) + 1

\* The rows of a result set as the list `.all()` returns, in id order.
RECURSIVE SortedById(_)
SortedById(S) ==
    IF S = {} THEN <<>>
    ELSE LET m == CHOOSE r \in S : \A q \in S : r.id <= q.id
         IN  <<m>> \o SortedById(S \ {m})

\* `.first()` / `sess.get`: the row or nothing, as a list of at most one row.
First(S) == IF S = {} THEN <<>> ELSE <<SortedById(S)[1]>>

Elems(s) == {s[i] : i \in 1..Len(s)}

\* What a call left for its caller: the function, how it ended ("id", "row",
\* "list", "None", "True", "False", "raised"), the branch that ended it, and
\* the id returned or addressed.
Result(op, ret, why, id) ==
    [op |-> op, ret |-> ret, why |-> why, id |-> id]

NoFrame == [op |-> "none", args |-> <<>>]

\* `if x:` for an optional argument: a passed 0 counts as left out.
Provided_truthy(v) == v # None /\ v # 0

\* `x is not None` for an optional argument.
Provided(v) == v # None
ProvidedStr(v) == v # NoneStr

\* -------------------------------------------------------------- the schema
\* A name column without its unique index: no commit is refused.
UniqueViolation_off(n, self) == FALSE

\* Category.name is Field(unique=True): a commit that would leave a second
\* row with the name n, besides the row `self`, raises IntegrityError.
UniqueViolation(n, self) ==
    \E c \in categories : c.name = n /\ c.id # self

\* A session that writes its pending edits out before it is left.
Discard_flushed(table, old, edited) == (table \ {old}) \cup {edited}

\* A failed commit that loses the new name and keeps the other edits.
Discard_nameonly(table, old, edited) ==
    IF "name" \in DOMAIN old
    THEN (table \ {old}) \cup {[edited EXCEPT !.name = old.name]}
    ELSE table

\* A session left without commit (an early return or an exception inside the
\* `with` block) discards the edits made to its objects: the table is as stored.
Discard(table, old, edited) == table

\* sess.delete(row); sess.commit()
DeleteRow(table, id) == {r \in table : r.id # id}

\* sess.add(row); sess.commit() of an edited, already stored row.
ReplaceRow(table, old, edited) == (table \ {old}) \cup {edited}

\* ------------------------------------------------------- category queries
\* select(Category).where(Category.id == category_id) ... .first()
get_category_by_id(category_id) ==
    First({c \in categories : c.id = category_id})

get_category_by_name(category_name) ==
    First({c \in categories : c.name = category_name})

get_all_categories == SortedById(categories)

\* the where clause compares the stored string as it is
get_categories_by_type(category_type) ==
    SortedById({c \in categories : c.type = category_type})

\* ------------------------------------------------------- category service
\* A create that answers a taken name by overwriting the stored category.
create_category_overwrite(category_name, category_type) ==
    /\ IF \E c \in categories : c.name = category_name
       THEN /\ categories' = {IF c.name = category_name
                              THEN [c EXCEPT !.type = category_type] ELSE c
                              : c \in categories}
            /\ last' = Result("create_category", "None", "duplicate", None)
            /\ UNCHANGED <<expenses, earnings>>
       ELSE LET id == NextId(categories)
            IN  /\ id <= MaxId
                /\ categories' = categories \cup
                       {[id |-> id, name |-> category_name,
                         type |-> category_type]}
                /\ last' = Result("create_category", "id", "ok", id)
                /\ UNCHANGED <<expenses, earnings>>
    /\ UNCHANGED frame

create_category(category_name, category_type) ==
    /\ IF UniqueViolation(category_name, None)
       THEN /\ last' = Result("create_category", "None", "duplicate", None)
            /\ UNCHANGED tables
       ELSE LET id == NextId(categories)
                category == [id |-> id, name |-> category_name,
                             type |-> category_type]
            IN  /\ id <= MaxId
                /\ categories' = categories \cup {category}
                /\ last' = Result("create_category", "id", "ok", id)
                /\ UNCHANGED <<expenses, earnings>>
    /\ UNCHANGED frame

update_category(category_id, new_name, new_type) ==
    /\ LET found == get_category_by_id(category_id)
       IN  IF found = <<>>
           THEN /\ last' = Result("update_category", "None", "not_found",
                                  category_id)
                /\ UNCHANGED tables
           ELSE LET category == found[1]
                    edited == [id |-> category.id,
                               name |-> IF ProvidedStr(new_name)
                                        THEN new_name ELSE category.name,
                               type |-> IF ProvidedStr(new_type)
                                        THEN new_type ELSE category.type]
                IN  IF UniqueViolation(edited.name, category.id)
                    THEN /\ categories' = Discard(categories, category, edited)
                         /\ last' = Result("update_category", "None",
                                           "duplicate", category_id)
                         /\ UNCHANGED <<expenses, earnings>>
                    ELSE /\ categories' = ReplaceRow(categories, category, edited)
                         /\ last' = Result("update_category", "row", "ok",
                                           category_id)
                         /\ UNCHANGED <<expenses, earnings>>
    /\ UNCHANGED frame

\* Expense.category_id is Optional[int]: the column takes NULL.
ExpenseCategoryNullable == TRUE
\* Earning.category_id is int: the column is NOT NULL.
EarningCategoryNullable == FALSE

\* Category.expenses and Category.earnings (and Category.budgets, a table no
\* service function writes to) are relationships without a delete cascade:
\* when a category is deleted the session blanks the category_id of the rows
\* that reference it, in the transaction of the delete.
Blank(table, category_id) ==
    {IF r.category_id = category_id THEN [r EXCEPT !.category_id = None] ELSE r
     : r \in table}

References(table, category_id) == \E r \in table : r.category_id = category_id

\* Blanking a NOT NULL column fails the commit with IntegrityError, which the
\* generic handler turns into False with nothing committed.
delete_category(category_id) ==
    /\ LET found == get_category_by_id(category_id)
       IN  IF found = <<>>
           THEN /\ last' = Result("delete_category", "False", "not_found",
                                  category_id)
                /\ UNCHANGED tables
           ELSE IF \/ References(expenses, category_id)
                      /\ ~ExpenseCategoryNullable
                   \/ References(earnings, category_id)
                      /\ ~EarningCategoryNullable
           THEN /\ last' = Result("delete_category", "False", "error",
                                  category_id)
                /\ UNCHANGED tables
           ELSE /\ categories' = DeleteRow(categories, category_id)
                /\ expenses' = Blank(expenses, category_id)
                /\ earnings' = Blank(earnings, category_id)
                /\ last' = Result("delete_category", "True", "ok",
                                  category_id)
    /\ UNCHANGED frame

\* -------------------------------------------------------- expense queries
\* A create and an update that skip the check of the category's type.
IsExpenseCategory_unchecked(category) == TRUE

\* `category.type.lower() != 'expense'`, negated
IsExpenseCategory(category) == Lower(category.type) = "expense"

\* A range that leaves its end date out.
InExpenseRange_open(d, start_date, end_date) ==
    d >= start_date /\ d < end_date

\* where(transaction_date >= start_date, transaction_date <= end_date)
InExpenseRange(d, start_date, end_date) == d >= start_date /\ d <= end_date

get_expense_by_id(expense_id) ==
    First({e \in expenses : e.id = expense_id})

\* A query by category that leaves out the where clause.
get_expenses_by_category_all(category_id) ==
    IF get_category_by_id(category_id) = <<>>
    THEN <<>>
    ELSE SortedById(expenses)

\* get_category_by_id first; then select(Expense).where(category_id == ...)
get_expenses_by_category(category_id) ==
    IF get_category_by_id(category_id) = <<>>
    THEN <<>>
    ELSE SortedById({e \in expenses : e.category_id = category_id})

get_expenses_by_range(start_date, end_date) ==
    SortedById({e \in expenses :
                  InExpenseRange(e.transaction_date, start_date, end_date)})

\* -------------------------------------------------------- expense service
create_expense(transaction_date, amount, category_id, description) ==
    /\ LET found == get_category_by_id(category_id)
       IN  IF found = <<>>
           THEN /\ last' = Result("create_expense", "None",
                                  "category_not_found", None)
                /\ UNCHANGED tables
           ELSE IF ~IsExpenseCategory(found[1])
           THEN /\ last' = Result("create_expense", "None", "type_mismatch",
                                  None)
                /\ UNCHANGED tables
           ELSE LET id == NextId(expenses)
                    expense == [id |-> id,
                                transaction_date |-> transaction_date,
                                amount |-> amount,
                                description |-> description,
                                category_id |-> category_id]
                IN  /\ id <= MaxId
                    /\ expenses' = expenses \cup {expense}
                    /\ last' = Result("create_expense", "id", "ok", id)
                    /\ UNCHANGED <<categories, earnings>>
    /\ UNCHANGED frame

update_expense(expense_id, new_transaction_date, new_amount, new_category_id, new_description) ==
    /\ LET found == get_expense_by_id(expense_id)
       IN  IF found = <<>>
           THEN /\ last' = Result("update_expense", "None", "not_found",
                                  expense_id)
                /\ UNCHANGED tables
           ELSE LET expense == found[1]
                    original_category_id == expense.category_id
                    fields == [expense EXCEPT
                        !.transaction_date =
                            IF Provided(new_transaction_date)
                            THEN new_transaction_date ELSE @,
                        !.amount = IF Provided(new_amount)
                                   THEN new_amount ELSE @,
                        !.description = IF ProvidedStr(new_description)
                                        THEN new_description ELSE @]
                    recheck == /\ Provided(new_category_id)
                               /\ new_category_id # original_category_id
                    category == get_category_by_id(new_category_id)
                    edited == IF recheck
                              THEN [fields EXCEPT !.category_id = new_category_id]
                              ELSE fields
                IN  IF recheck /\ category = <<>>
                    THEN /\ expenses' = Discard(expenses, expense, fields)
                         /\ last' = Result("update_expense", "None",
                                           "category_not_found", expense_id)
                         /\ UNCHANGED <<categories, earnings>>
                    ELSE IF recheck /\ ~IsExpenseCategory(category[1])
                    THEN /\ expenses' = Discard(expenses, expense, fields)
                         /\ last' = Result("update_expense", "None",
                                           "type_mismatch", expense_id)
                         /\ UNCHANGED <<categories, earnings>>
                    ELSE /\ expenses' = ReplaceRow(expenses, expense, edited)
                         /\ last' = Result("update_expense", "row", "ok",
                                           expense_id)
                         /\ UNCHANGED <<categories, earnings>>
    /\ UNCHANGED frame

delete_expense(expense_id) ==
    /\ IF get_expense_by_id(expense_id) = <<>>
       THEN /\ last' = Result("delete_expense", "False", "not_found",
                              expense_id)
            /\ UNCHANGED tables
       ELSE /\ expenses' = DeleteRow(expenses, expense_id)
            /\ last' = Result("delete_expense", "True", "ok", expense_id)
            /\ UNCHANGED <<categories, earnings>>
    /\ UNCHANGED frame

\* -------------------------------------------------------- earning queries
\* `category.type.lower() != 'earning'`, negated
IsEarningCategory(category) == Lower(category.type) = "earning"

\* where(transaction_date >= start_date, transaction_date <= end_date)
InEarningRange(d, start_date, end_date) == d >= start_date /\ d <= end_date

get_earning_by_id(earning_id) ==
    First({e \in earnings : e.id = earning_id})

get_earning_by_category(category_id) ==
    IF get_category_by_id(category_id) = <<>>
    THEN <<>>
    ELSE SortedById({e \in earnings : e.category_id = category_id})

get_earnings_by_range(start_date, end_date) ==
    SortedById({e \in earnings :
                  InEarningRange(e.transaction_date, start_date, end_date)})

\* -------------------------------------------------------- earning service
create_earning(transaction_date, amount, category_id, description) ==
    /\ LET found == get_category_by_id(category_id)
       IN  IF found = <<>>
           THEN /\ last' = Result("create_earning", "None",
                                  "category_not_found", None)
                /\ UNCHANGED tables
           ELSE IF ~IsEarningCategory(found[1])
           THEN /\ last' = Result("create_earning", "None", "type_mismatch",
                                  None)
                /\ UNCHANGED tables
           ELSE LET id == NextId(earnings)
                    earning == [id |-> id,
                                transaction_date |-> transaction_date,
                                amount |-> amount,
                                description |-> description,
                                category_id |-> category_id]
                IN  /\ id <= MaxId
                    /\ earnings' = earnings \cup {earning}
                    /\ last' = Result("create_earning", "id", "ok", id)
                    /\ UNCHANGED <<categories, expenses>>
    /\ UNCHANGED frame

update_earning(earning_id, new_transaction_date, new_amount, new_category_id, new_description) ==
    /\ LET found == get_earning_by_id(earning_id)
       IN  IF found = <<>>
           THEN /\ last' = Result("update_earning", "None", "not_found",
                                  earning_id)
                /\ UNCHANGED tables
           ELSE LET earning == found[1]
                    original_category_id == earning.category_id
                    fields == [earning EXCEPT
                        !.transaction_date =
                            IF Provided(new_transaction_date)
                            THEN new_transaction_date ELSE @,
                        !.amount = IF Provided(new_amount)
                                   THEN new_amount ELSE @,
                        !.description = IF ProvidedStr(new_description)
                                        THEN new_description ELSE @]
                    recheck == /\ Provided(new_category_id)
                               /\ new_category_id # original_category_id
                    category == get_category_by_id(new_category_id)
                    edited == IF recheck
                              THEN [fields EXCEPT !.category_id = new_category_id]
                              ELSE fields
                IN  IF recheck /\ category = <<>>
                    THEN /\ earnings' = Discard(earnings, earning, fields)
                         /\ last' = Result("update_earning", "None",
                                           "category_not_found", earning_id)
                         /\ UNCHANGED <<categories, expenses>>
                    ELSE IF recheck /\ ~IsEarningCategory(category[1])
                    THEN /\ earnings' = Discard(earnings, earning, fields)
                         /\ last' = Result("update_earning", "None",
                                           "type_mismatch", earning_id)
                         /\ UNCHANGED <<categories, expenses>>
                    ELSE /\ earnings' = ReplaceRow(earnings, earning, edited)
                         /\ last' = Result("update_earning", "row", "ok",
                                           earning_id)
                         /\ UNCHANGED <<categories, expenses>>
    /\ UNCHANGED frame

delete_earning(earning_id) ==
    /\ IF get_earning_by_id(earning_id) = <<>>
       THEN /\ last' = Result("delete_earning", "False", "not_found",
                              earning_id)
            /\ UNCHANGED tables
       ELSE /\ earnings' = DeleteRow(earnings, earning_id)
            /\ last' = Result("delete_earning", "True", "ok", earning_id)
            /\ UNCHANGED <<categories, expenses>>
    /\ UNCHANGED frame

\* -------------------------------------------------------- the query calls
\* A query leaves the tables alone and hands its rows to the caller: one row
\* or None from the `.first()` queries, a list from the `.all()` queries.
Returned(op, id, rows, single) ==
    /\ last' = Result(op,
                      IF single THEN (IF rows = <<>> THEN "None" ELSE "row")
                      ELSE "list",
                      IF single /\ rows = <<>> THEN "not_found" ELSE "ok",
                      id)
    /\ UNCHANGED <<tables, frame>>

call_get_category_by_name(category_name) ==
    Returned("get_category_by_name", None,
             get_category_by_name(category_name), TRUE)

call_get_category_by_id(category_id) ==
    Returned("get_category_by_id", category_id,
             get_category_by_id(category_id), TRUE)

call_get_all_categories ==
    Returned("get_all_categories", None, get_all_categories, FALSE)

call_get_categories_by_type(category_type) ==
    Returned("get_categories_by_type", None,
             get_categories_by_type(category_type), FALSE)

call_get_expense_by_id(expense_id) ==
    Returned("get_expense_by_id", expense_id,
             get_expense_by_id(expense_id), TRUE)

call_get_expenses_by_category(category_id) ==
    Returned("get_expenses_by_category", category_id,
             get_expenses_by_category(category_id), FALSE)

call_get_expenses_by_range(start_date, end_date) ==
    Returned("get_expenses_by_range", None,
             get_expenses_by_range(start_date, end_date), FALSE)

call_get_earning_by_id(earning_id) ==
    Returned("get_earning_by_id", earning_id,
             get_earning_by_id(earning_id), TRUE)

call_get_earning_by_category(category_id) ==
    Returned("get_earning_by_category", category_id,
             get_earning_by_category(category_id), FALSE)

call_get_earnings_by_range(start_date, end_date) ==
    Returned("get_earnings_by_range", None,
             get_earnings_by_range(start_date, end_date), FALSE)

\* ------------------------------------------------------ the specifications
\* init_db() on a new database file: three empty tables.
Init ==
    /\ categories = {}
    /\ expenses = {}
    /\ earnings = {}
    /\ last = Result("none", "None", "ok", None)
    /\ frame = NoFrame

\* The number of expense and earning rows stays within the model's bound.
Within(cap) == Cardinality(expenses') + Cardinality(earnings') <= cap

CategoryStep(N, T) ==
    \/ \E n \in N, t \in T : create_category(n, t)
    \/ \E c \in Ids, n \in OptStr(N), t \in OptStr(T) :
          update_category(c, n, t)
    \/ \E c \in Ids : delete_category(c)

ExpenseStep(D, A, S, cap) ==
    \/ \E d \in D, a \in A, c \in Ids, s \in OptStr(S) :
          create_expense(d, a, c, s) /\ Within(cap)
    \/ \E e \in Ids, d \in Opt(D), a \in Opt(A), c \in Opt(Ids),
          s \in OptStr(S) : update_expense(e, d, a, c, s)
    \/ \E e \in Ids : delete_expense(e)

EarningStep(D, A, S, cap) ==
    \/ \E d \in D, a \in A, c \in Ids, s \in OptStr(S) :
          create_earning(d, a, c, s) /\ Within(cap)
    \/ \E e \in Ids, d \in Opt(D), a \in Opt(A), c \in Opt(Ids),
          s \in OptStr(S) : update_earning(e, d, a, c, s)
    \/ \E e \in Ids : delete_earning(e)

QueryStep(N, T, D) ==
    \/ \E n \in N : call_get_category_by_name(n)
    \/ \E c \in Ids : call_get_category_by_id(c)
    \/ call_get_all_categories
    \/ \E t \in T : call_get_categories_by_type(t)
    \/ \E e \in Ids : call_get_expense_by_id(e)
    \/ \E c \in Ids : call_get_expenses_by_category(c)
    \/ \E s \in D, e \in D : call_get_expenses_by_range(s, e)
    \/ \E e \in Ids : call_get_earning_by_id(e)
    \/ \E c \in Ids : call_get_earning_by_category(c)
    \/ \E s \in D, e \in D : call_get_earnings_by_range(s, e)

Step(N, T, D, A, S, cap) ==
    \/ CategoryStep(N, T)
    \/ ExpenseStep(D, A, S, cap)
    \/ EarningStep(D, A, S, cap)
    \/ QueryStep(N, T, D)

\* Every operation over every argument, at most MaxRows transaction rows.
Next == Step(Names, Types, Dates, Amounts, Descriptions, MaxRows)

Spec == Init /\ [][Next]_vars

\* Every operation again, with up to MaxRowsWide transaction rows, over the
\* two enumerated category types, one amount and no description.
NextRows == Step(Names, {"expense", "earning"}, Dates, {0}, {}, MaxRowsWide)

SpecRows == Init /\ [][NextRows]_vars

\* --------------------------------------------------- the call, from outside
\* database.get_session: a function whose body yields the session, so that a
\* call of it returns a generator object (it carries no
\* contextlib.contextmanager decorator).
get_session == "generator"

\* `with obj as sess:` needs the context manager protocol of obj; on any
\* other object the statement raises TypeError before its block is entered.
EntersWith(obj) == obj = "contextmanager"

Call(op, args) == [op |-> op, args |-> args]

\* The service calls a caller can make.
Calls ==
    {Call("create_category", <<n, t>>) : n \in Names, t \in Types}
    \cup {Call("get_category_by_name", <<n>>) : n \in Names}
    \cup {Call("get_category_by_id", <<c>>) : c \in Ids}
    \cup {Call("get_all_categories", <<>>)}
    \cup {Call("get_categories_by_type", <<t>>) : t \in Types}
    \cup {Call("update_category", <<c, n, t>>) :
            c \in Ids, n \in OptStr(Names), t \in OptStr(Types)}
    \cup {Call("delete_category", <<c>>) : c \in Ids}
    \cup {Call(op, <<d, a, c, s>>) :
            op \in {"create_expense", "create_earning"}, d \in Dates,
            a \in Amounts, c \in Ids, s \in OptStr(Descriptions)}
    \cup {Call(op, <<e>>) :
            op \in {"get_expense_by_id", "get_earning_by_id",
                    "get_expenses_by_category", "get_earning_by_category",
                    "delete_expense", "delete_earning"}, e \in Ids}
    \cup {Call(op, <<s, e>>) :
            op \in {"get_expenses_by_range", "get_earnings_by_range"},
            s \in Dates, e \in Dates}
    \cup {Call(op, <<e, d, a, c, s>>) :
            op \in {"update_expense", "update_earning"}, e \in Ids,
            d \in Opt(Dates), a \in Opt(Amounts), c \in Opt(Ids),
            s \in OptStr(Descriptions)}

\* The body of the called function, inside its `with` block.
Body(f) ==
    LET a == f.args
    IN  CASE f.op = "create_category" -> create_category(a[1], a[2])
          [] f.op = "get_category_by_name" -> call_get_category_by_name(a[1])
          [] f.op = "get_category_by_id" -> call_get_category_by_id(a[1])
          [] f.op = "get_all_categories" -> call_get_all_categories
          [] f.op = "get_categories_by_type" ->
                call_get_categories_by_type(a[1])
          [] f.op = "update_category" -> update_category(a[1], a[2], a[3])
          [] f.op = "delete_category" -> delete_category(a[1])
          [] f.op = "create_expense" ->
                create_expense(a[1], a[2], a[3], a[4]) /\ Within(MaxRows)
          [] f.op = "get_expense_by_id" -> call_get_expense_by_id(a[1])
          [] f.op = "get_expenses_by_category" ->
                call_get_expenses_by_category(a[1])
          [] f.op = "get_expenses_by_range" ->
                call_get_expenses_by_range(a[1], a[2])
          [] f.op = "update_expense" ->
                update_expense(a[1], a[2], a[3], a[4], a[5])
          [] f.op = "delete_expense" -> delete_expense(a[1])
          [] f.op = "create_earning" ->
                create_earning(a[1], a[2], a[3], a[4]) /\ Within(MaxRows)
          [] f.op = "get_earning_by_id" -> call_get_earning_by_id(a[1])
          [] f.op = "get_earning_by_category" ->
                call_get_earning_by_category(a[1])
          [] f.op = "get_earnings_by_range" ->
                call_get_earnings_by_range(a[1], a[2])
          [] f.op = "update_earning" ->
                update_earning(a[1], a[2], a[3], a[4], a[5])
          [] f.op = "delete_earning" -> delete_earning(a[1])

\* A caller calls a service function.
Invoke ==
    /\ last.ret # "pending"
    /\ \E c \in Calls :
          /\ frame' = c
          /\ last' = Result(c.op, "pending", "called", None)
    /\ UNCHANGED tables

\* The function's first statement, `with get_session() as sess:`, which
\* stands outside the function's try block: an exception it raises is the
\* caller's; otherwise the block runs to its return.
EnterSession ==
    /\ last.ret = "pending"
    /\ IF EntersWith(get_session)
       THEN Body(frame)
       ELSE /\ last' = Result(frame.op, "raised", "TypeError", None)
            /\ UNCHANGED <<tables, frame>>

NextCall == Invoke \/ EnterSession

SpecCall == Init /\ [][NextCall]_vars

\* ================================================================ claims
Stored(table, id) == \E r \in table : r.id = id
Row(table, id) == CHOOSE r \in table : r.id = id

\* Every way the call `call` can end from the current state ends as `post`
\* says of the tables before the call and the primed ones after it.
Ensures(call, post) == ~ENABLED (call /\ ~post)

\* C1: in every reachable state every stored expense has a category_id that
\* resolves to a stored category whose type is "expense", and every stored
\* earning one that resolves to a stored category whose type is "earning".
C1_CategoryOfKind ==
    /\ \A e \in expenses :
          \E c \in categories : c.id = e.category_id /\ c.type = "expense"
    /\ \A e \in earnings :
          \E c \in categories : c.id = e.category_id /\ c.type = "earning"

\* C2: no two stored categories have the same name.
C2_UniqueNames ==
    \A c1 \in categories, c2 \in categories : c1.name = c2.name => c1 = c2

C2_Witness ==
    /\ Cardinality(categories) = 2
    /\ last.op = "update_category"
    /\ last.why = "duplicate"

HasKind(c, kind) ==
    \E k \in categories : k.id = c /\ Lower(k.type) = kind

C7_DeleteById ==
    \A id \in Ids :
       /\ Ensures(delete_category(id),
             IF Stored(categories, id)
             THEN /\ last'.ret = "True"
                  /\ categories' = categories \ {Row(categories, id)}
             ELSE /\ last'.ret = "False"
                  /\ tables' = tables)
       /\ Ensures(delete_expense(id),
             IF Stored(expenses, id)
             THEN /\ last'.ret = "True"
                  /\ expenses' = expenses \ {Row(expenses, id)}
             ELSE /\ last'.ret = "False"
                  /\ tables' = tables)
       /\ Ensures(delete_earning(id),
             IF Stored(earnings, id)
             THEN /\ last'.ret = "True"
                  /\ earnings' = earnings \ {Row(earnings, id)}
             ELSE /\ last'.ret = "False"
                  /\ tables' = tables)

\* C8: no service call ends in an exception raised to its caller.
C8_NoCallRaises == last.ret # "raised"

Updated(new, old) == IF new # None THEN new ELSE old
UpdatedStr(new, old) == IF new # NoneStr THEN new ELSE old

\* C10: an update_expense, update_earning or update_category that returns
\* the row has set every field it was passed a value for to that value, and
\* left the row's other fields, its id and every other stored row as they
\* were.
C10_PartialUpdate ==
    /\ \A e \in Ids, d \in Opt(Dates), a \in Opt(Amounts), c \in Opt(Ids),
          s \in OptStr(Descriptions) :
          /\ Stored(expenses, e) =>
                Ensures(update_expense(e, d, a, c, s),
                   last'.ret = "row" =>
                      LET old == Row(expenses, e)
                          new == [id |-> e,
                                  transaction_date |->
                                      Updated(d, old.transaction_date),
                                  amount |-> Updated(a, old.amount),
                                  description |->
                                      UpdatedStr(s, old.description),
                                  category_id |->
                                      Updated(c, old.category_id)]
                      IN  /\ expenses' = (expenses \ {old}) \cup {new}
                          /\ categories' = categories
                          /\ earnings' = earnings)
          /\ Stored(earnings, e) =>
                Ensures(update_earning(e, d, a, c, s),
                   last'.ret = "row" =>
                      LET old == Row(earnings, e)
                          new == [id |-> e,
                                  transaction_date |->
                                      Updated(d, old.transaction_date),
                                  amount |-> Updated(a, old.amount),
                                  description |->
                                      UpdatedStr(s, old.description),
                                  category_id |->
                                      Updated(c, old.category_id)]
                      IN  /\ earnings' = (earnings \ {old}) \cup {new}
                          /\ categories' = categories
                          /\ expenses' = expenses)
    /\ \A c \in Ids, n \in OptStr(Names), t \in OptStr(Types) :
          Stored(categories, c) =>
             Ensures(update_category(c, n, t),
                last'.ret = "row" =>
                   LET old == Row(categories, c)
                       new == [id |-> c, name |-> UpdatedStr(n, old.name),
                               type |-> UpdatedStr(t, old.type)]
                   IN  /\ categories' = (categories \ {old}) \cup {new}
                       /\ expenses' = expenses
                       /\ earnings' = earnings)

C10_Witness ==
    /\ last.op = "update_expense"
    /\ last.ret = "row"
    /\ Stored(expenses, last.id)
    /\ Row(expenses, last.id).amount = 0
    /\ Row(expenses, last.id).description = "rent"

\* C11: the type of every stored category is one of the two enumerated
\* values, "expense" or "earning".
C11_TypeEnumerated ==
    \A c \in categories : c.type \in {"expense", "earning"}

====
